---- MODULE Spec2Model ----
(***************************************************************************)
(* HolidayBot: the holiday cache subsystem (bot/utils/holidays.py) and the *)
(* two scheduler loops of main.py, as a state machine.                     *)
(*                                                                         *)
(* Time is counted in whole minutes: an instant is day * 1440 + minute of  *)
(* day, a date is the day number.  Strings that the code parses (the       *)
(* autopost time) are sequences of one-character strings, so parsing and   *)
(* formatting are computed, not assumed.                                   *)
(***************************************************************************)
EXTENDS Integers, Sequences, FiniteSets, TLC

(***************************************************************************)
(* Bounds of the model.                                                    *)
(***************************************************************************)
\* The clock runs from day 0 to the last time point of day MaxDay.
MaxDay == 1

\* Minutes in a day (datetime arithmetic, timedelta(days=1)).
DayMinutes == 1440

(***************************************************************************)
(* Strings as sequences of characters.                                     *)
(***************************************************************************)
Digits == <<"0", "1", "2", "3", "4", "5", "6", "7", "8", "9">>

IsDigit(c) == \E i \in 1..10 : Digits[i] = c

DigitVal(c) == (CHOOSE i \in 1..10 : Digits[i] = c) - 1

IsSpace(c) == c = " "

\* str.strip(): drop leading and trailing whitespace.
RECURSIVE LStrip(_)
LStrip(s) == IF s # <<>> /\ IsSpace(Head(s)) THEN LStrip(Tail(s)) ELSE s

RECURSIVE RStrip(_)
RStrip(s) ==
  IF s # <<>> /\ IsSpace(s[Len(s)]) THEN RStrip(SubSeq(s, 1, Len(s) - 1)) ELSE s

Strip(s) == RStrip(LStrip(s))

\* str.split(":"): the fields between the separators, in order.
RECURSIVE SplitFrom(_, _, _)
SplitFrom(s, i, cur) ==
  IF i > Len(s) THEN <<cur>>
  ELSE IF s[i] = ":" THEN <<cur>> \o SplitFrom(s, i + 1, <<>>)
  ELSE SplitFrom(s, i + 1, Append(cur, s[i]))

Split(s) == SplitFrom(s, 1, <<>>)

\* str.split(":", maxsplit=1): cut at the first separator only.
FirstColon(s) ==
  IF \E i \in 1..Len(s) : s[i] = ":"
  THEN CHOOSE i \in 1..Len(s) : s[i] = ":" /\ \A j \in 1..(i - 1) : s[j] # ":"
  ELSE 0

Split1(s) ==
  IF FirstColon(s) = 0 THEN <<s>>
  ELSE <<SubSeq(s, 1, FirstColon(s) - 1), SubSeq(s, FirstColon(s) + 1, Len(s))>>

\* int(text): surrounding whitespace is ignored, an optional sign, then one
\* or more decimal digits; anything else is a ValueError.  (Python also takes
\* underscores between digits and non-ASCII digits; the alphabet of the model
\* has neither.)
RECURSIVE DigitsValue(_, _)
DigitsValue(s, acc) ==
  IF s = <<>> THEN acc ELSE DigitsValue(Tail(s), acc * 10 + DigitVal(Head(s)))

IntBody(s) == IF s # <<>> /\ Head(s) \in {"+", "-"} THEN Tail(s) ELSE s

IntOk(s) ==
  LET b == IntBody(Strip(s))
  IN  b # <<>> /\ \A i \in 1..Len(b) : IsDigit(b[i])

IntVal(s) ==
  LET t == Strip(s)
      v == DigitsValue(IntBody(t), 0)
  IN  IF t # <<>> /\ Head(t) = "-" THEN 0 - v ELSE v

\* f"{n:02d}" for 0 <= n <= 99.
Fmt02(n) == <<Digits[(n \div 10) + 1], Digits[(n % 10) + 1]>>

FormatHHMM(h, m) == Fmt02(h) \o <<":">> \o Fmt02(m)

(***************************************************************************)
(* _normalize_time: [ok |-> TRUE, val |-> "HH:MM"] or a ValueError.        *)
(***************************************************************************)
TimeError == [ok |-> FALSE, val |-> <<>>]

normalize_time_raw(value) ==
  \* The validated value returned as typed, stripped but not reformatted.
  LET valuestrip == Strip(value)
      parts == Split(valuestrip)
  IN  IF valuestrip = <<>> THEN TimeError
      ELSE IF Len(parts) # 2 THEN TimeError
      ELSE IF ~(IntOk(parts[1]) /\ IntOk(parts[2])) THEN TimeError
      ELSE IF ~(0 <= IntVal(parts[1]) /\ IntVal(parts[1]) <= 23
                /\ 0 <= IntVal(parts[2]) /\ IntVal(parts[2]) <= 59)
           THEN TimeError
      ELSE [ok |-> TRUE, val |-> valuestrip]

_normalize_time(value) ==
  LET valuestrip == Strip(value)
      parts == Split(valuestrip)
  IN  IF valuestrip = <<>> THEN TimeError
      ELSE IF Len(parts) # 2 THEN TimeError
      ELSE IF ~(IntOk(parts[1]) /\ IntOk(parts[2])) THEN TimeError
      ELSE IF ~(0 <= IntVal(parts[1]) /\ IntVal(parts[1]) <= 23
                /\ 0 <= IntVal(parts[2]) /\ IntVal(parts[2]) <= 59)
           THEN TimeError
      ELSE [ok |-> TRUE, val |-> FormatHHMM(IntVal(parts[1]), IntVal(parts[2]))]

(***************************************************************************)
(* _parse_time_string (main.py): split at the first colon, int() both      *)
(* fields; no range check.  A wrong shape is a ValueError.                 *)
(***************************************************************************)
_parse_time_string(value) ==
  LET parts == Split1(value)
  IN  IF Len(parts) # 2 THEN [ok |-> FALSE, hour |-> 0, minute |-> 0]
      ELSE IF ~(IntOk(parts[1]) /\ IntOk(parts[2]))
           THEN [ok |-> FALSE, hour |-> 0, minute |-> 0]
      ELSE [ok |-> TRUE, hour |-> IntVal(parts[1]), minute |-> IntVal(parts[2])]

(***************************************************************************)
(* Instants and dates.                                                     *)
(***************************************************************************)
DateOf(moment) == moment \div DayMinutes

HourOf(moment) == (moment % DayMinutes) \div 60

MinuteOf(moment) == (moment % DayMinutes) % 60

next_run_at_or_now(now, hour, minute) ==
  \* Today's hour:minute also when it is the current instant.
  IF ~(0 <= hour /\ hour <= 23 /\ 0 <= minute /\ minute <= 59)
  THEN [ok |-> FALSE, at |-> 0]
  ELSE LET candidate == DateOf(now) * DayMinutes + hour * 60 + minute
       IN  [ok |-> TRUE,
            at |-> IF candidate < now THEN candidate + DayMinutes ELSE candidate]

\* _next_run_at: today's hour:minute, or tomorrow's when that is not strictly
\* in the future.  datetime.replace raises ValueError for a field out of range.
_next_run_at(now, hour, minute) ==
  IF ~(0 <= hour /\ hour <= 23 /\ 0 <= minute /\ minute <= 59)
  THEN [ok |-> FALSE, at |-> 0]
  ELSE LET candidate == DateOf(now) * DayMinutes + hour * 60 + minute
       IN  [ok |-> TRUE,
            at |-> IF candidate <= now THEN candidate + DayMinutes ELSE candidate]

(***************************************************************************)
(* JSON values of the cache document.                                      *)
(*                                                                         *)
(* A stored date is what json.loads gives for the "date" key: an ISO date  *)
(* string ("iso"), a string that is no ISO date ("garbage"), null or a     *)
(* missing key ("null"), or a value that is no string ("num").             *)
(***************************************************************************)
RawIso(d) == [t |-> "iso", day |-> d]

RawNull == [t |-> "null", day |-> 0]

RawGarbage == [t |-> "garbage", day |-> 0]

RawNum == [t |-> "num", day |-> 0]

\* Python truthiness of the stored date (if not raw_date).
RawTruthy(raw) == raw.t # "null"

\* date.isoformat()
isoformat(d) == RawIso(d)

\* date.fromisoformat(raw): the date, ValueError for a string that is no ISO
\* date, TypeError for an argument that is no string.
fromisoformat(raw) ==
  CASE raw.t = "iso" -> [res |-> "ok", day |-> raw.day]
    [] raw.t = "num" -> [res |-> "TypeError", day |-> 0]
    [] OTHER -> [res |-> "ValueError", day |-> 0]

\* The instant of a slot that carries none.
NoInstant == 0 - 1

\* A slot of the document: a JSON object ("dict"), null or missing ("null").
Slot(date, holidays, fetched_at) ==
  [t |-> "dict", date |-> date, holidays |-> holidays, fetched_at |-> fetched_at,
   source_url |-> "CALEND_RU_URL"]

NullSlot ==
  [t |-> "null", date |-> RawNull, holidays |-> <<>>, fetched_at |-> NoInstant,
   source_url |-> ""]

\* Python truthiness of a slot: null and the empty object are falsy.
SlotTruthy(slot) == slot.t # "null"

\* _serialize_day
_serialize_day(target_date, holidays, fetched_at) ==
  Slot(isoformat(target_date), holidays, fetched_at)

\* The value of _cache_payload before initialize_holiday_cache has run.
NoPayload == [t |-> "none"]

Payload(autopost_time, updated_at, today, tomorrow) ==
  [t |-> "payload", autopost_time |-> autopost_time, updated_at |-> updated_at,
   today |-> today, tomorrow |-> tomorrow]

\* _default_payload
_default_payload(autopost_time, now) ==
  Payload(autopost_time, now,
          _serialize_day(DateOf(now), <<>>, now),
          _serialize_day(DateOf(now) + 1, <<>>, now))

(***************************************************************************)
(* HolidayResult and the outcome of a call: a result ("some"), None        *)
(* ("none") or an exception leaving the call ("raise").                    *)
(***************************************************************************)
ErrNoHolidays == "no holidays found"

ErrStale == "served from stale cache"

ErrFetchFailed == "fetch failed"

NoError == "None"

HolidayResult(date, holidays, fetched_at, error) ==
  [k |-> "some", date |-> date, holidays |-> holidays, fetched_at |-> fetched_at,
   error |-> error]

None == [k |-> "none", date |-> 0, holidays |-> <<>>, fetched_at |-> NoInstant,
         error |-> NoError]

Raise(exc) == [k |-> "raise", date |-> 0, holidays |-> <<>>, fetched_at |-> NoInstant,
               error |-> exc]

\* _payload_entry_to_result.  A missing fetched_at is replaced by the
\* current instant.
_payload_entry_to_result(entry, now) ==
  IF ~RawTruthy(entry.date) THEN None
  ELSE LET parsed == fromisoformat(entry.date)
       IN  CASE parsed.res = "ValueError" -> None
             [] parsed.res = "TypeError" -> Raise("TypeError")
             [] OTHER ->
                  HolidayResult(parsed.day, entry.holidays,
                                IF entry.fetched_at = NoInstant THEN now
                                ELSE entry.fetched_at,
                                IF entry.holidays # <<>> THEN NoError
                                ELSE ErrNoHolidays)

\* One turn of the loop of get_cached_holiday_result over a slot:
\* "continue" (next key), or the value returned or raised.
CachedEntry(entry, target_date, now) ==
  IF ~SlotTruthy(entry) \/ ~RawTruthy(entry.date) THEN [go |-> "continue", out |-> None]
  ELSE LET parsed == fromisoformat(entry.date)
       IN  CASE parsed.res = "ValueError" -> [go |-> "continue", out |-> None]
             [] parsed.res = "TypeError" -> [go |-> "return", out |-> Raise("TypeError")]
             [] parsed.day = target_date ->
                  [go |-> "return", out |-> _payload_entry_to_result(entry, now)]
             [] OTHER -> [go |-> "continue", out |-> None]

\* get_cached_holiday_result: "today" first, then "tomorrow".
get_cached_holiday_result(p, target_date, now) ==
  LET first == CachedEntry(p.today, target_date, now)
      second == CachedEntry(p.tomorrow, target_date, now)
  IN  IF first.go = "return" THEN first.out
      ELSE IF second.go = "return" THEN second.out
      ELSE None

\* get_autopost_time
get_autopost_time(p) == p.autopost_time

(***************************************************************************)
(* The page.  A page is the set of dates for which it holds a container    *)
(* div_<date> with one holiday link; _parse_holidays gives the names found *)
(* in the container of the target date, none when there is no container.   *)
(***************************************************************************)
_parse_holidays(html, target_date) ==
  IF target_date \in html THEN <<"holiday">> ELSE <<>>

(***************************************************************************)
(* refresh_holiday_cache, lines 213-243: the day-boundary rule and the     *)
(* rewrite of both slots.                                                  *)
(***************************************************************************)
\* The threshold of the rule: hour == 23 and minute >= 45.
NearMidnightHour == 23

NearMidnightMinute == 45

is_near_midnight_late(moment) ==
  \* The threshold compared with > in place of >=.
  HourOf(moment) = NearMidnightHour /\ MinuteOf(moment) > NearMidnightMinute

is_near_midnight(moment) ==
  HourOf(moment) = NearMidnightHour /\ MinuteOf(moment) >= NearMidnightMinute

today_date_literal(moment) ==
  \* The "today" slot dated with the literal current date at every hour.
  DateOf(moment)

today_date_of(moment) ==
  IF is_near_midnight(moment) THEN DateOf(moment) + 1 ELSE DateOf(moment)

tomorrow_date_plain(moment) ==
  \* The day after the current date, whatever the time.
  DateOf(moment) + 1

tomorrow_date_of(moment) ==
  IF is_near_midnight(moment) THEN DateOf(moment) + 2 ELSE DateOf(moment) + 1

RefreshedPayloadTodayOnly(p, moment, html) ==
  \* The rewrite cut after the "today" slot.
  [p EXCEPT
     !.today = _serialize_day(today_date_of(moment),
                              _parse_holidays(html, today_date_of(moment)), moment)]

RefreshedPayloadRebuilt(p, moment, html) ==
  \* The document built anew around the two slots, with the autopost time
  \* "00:00" of _ensure_payload.
  Payload(<<"0", "0", ":", "0", "0">>, moment,
          _serialize_day(today_date_of(moment),
                         _parse_holidays(html, today_date_of(moment)), moment),
          _serialize_day(tomorrow_date_of(moment),
                         _parse_holidays(html, tomorrow_date_of(moment)), moment))

\* The document after the rewrite of lines 239-242.
RefreshedPayload(p, moment, html) ==
  [p EXCEPT
     !.today = _serialize_day(today_date_of(moment),
                              _parse_holidays(html, today_date_of(moment)), moment),
     !.tomorrow = _serialize_day(tomorrow_date_of(moment),
                                 _parse_holidays(html, tomorrow_date_of(moment)),
                                 moment),
     !.updated_at = moment]

(***************************************************************************)
(* update_autopost_time as a function of the document: the new document,   *)
(* the number of _write_payload calls, whether _notify_autopost_update is  *)
(* called, and the value returned (or the ValueError raised).              *)
(***************************************************************************)
update_autopost_time_always(p, value) ==
  \* update_autopost_time without the early return of line 123.
  LET normalized == _normalize_time(value)
  IN  IF ~normalized.ok
      THEN [raised |-> TRUE, payload |-> p, writes |-> 0, notify |-> FALSE,
            ret |-> <<>>]
      ELSE [raised |-> FALSE,
            payload |-> [p EXCEPT !.autopost_time = normalized.val],
            writes |-> 1, notify |-> TRUE, ret |-> normalized.val]

update_autopost_time(p, value) ==
  LET normalized == _normalize_time(value)
  IN  IF ~normalized.ok
      THEN [raised |-> TRUE, payload |-> p, writes |-> 0, notify |-> FALSE,
            ret |-> <<>>]
      ELSE IF p.autopost_time = normalized.val
      THEN [raised |-> FALSE, payload |-> p, writes |-> 0, notify |-> FALSE,
            ret |-> normalized.val]
      ELSE [raised |-> FALSE,
            payload |-> [p EXCEPT !.autopost_time = normalized.val],
            writes |-> 1, notify |-> TRUE, ret |-> normalized.val]

\* _notify_autopost_update: sets the event when one is registered.
notify_autopost_update_dropped(ev) == ev

_notify_autopost_update(ev) == IF ev = "unregistered" THEN ev ELSE "set"

(***************************************************************************)
(* The cache file.  _load_or_init_payload reads it: absent, not valid JSON *)
(* ("corrupt"), valid JSON that is no object ("list"), or a document.      *)
(***************************************************************************)
FileAbsent == [t |-> "absent", doc |-> NoPayload]

FileCorrupt == [t |-> "corrupt", doc |-> NoPayload]

FileList == [t |-> "list", doc |-> NoPayload]

\* Bytes that are no UTF-8: read_text raises UnicodeDecodeError.
FileUndecodable == [t |-> "undecodable", doc |-> NoPayload]

FileDoc(p) == [t |-> "doc", doc |-> p]

\* _load_or_init_payload: the document loaded or synthesized, with the
\* missing fields filled; "raise" when payload.get fails on a value that is
\* no object.
_load_or_init_payload(f, default_autopost_time, now) ==
  IF f.t \in {"list", "undecodable"} THEN [raised |-> TRUE, payload |-> NoPayload]
  ELSE LET loaded == IF f.t = "doc" THEN f.doc
                     ELSE _default_payload(default_autopost_time, now)
           p1 == IF loaded.autopost_time = <<>>
                 THEN [loaded EXCEPT !.autopost_time = default_autopost_time]
                 ELSE loaded
           p2 == IF ~SlotTruthy(p1.today)
                 THEN [p1 EXCEPT !.today = _serialize_day(DateOf(now), <<>>, now)]
                 ELSE p1
           p3 == IF ~SlotTruthy(p2.tomorrow)
                 THEN [p2 EXCEPT
                         !.tomorrow = _serialize_day(DateOf(now) + 1, <<>>, now)]
                 ELSE p2
       IN  [raised |-> FALSE, payload |-> p3]

\* The slots that _load_or_init_payload makes itself, empty and dated today
\* and tomorrow: both in the default document (lines 350-355), and a slot the
\* loaded document lacks (lines 340-343).
Synthesized(f) ==
  IF f.t # "doc" THEN {"today", "tomorrow"}
  ELSE {k \in {"today", "tomorrow"} : ~SlotTruthy(f.doc[k])}

\* initialize_holiday_cache: load, then convert the "today" entry (line 104),
\* which raises on a stored date that is no string.
initialize_holiday_cache(f, default_autopost_time, now) ==
  LET loaded == _load_or_init_payload(f, default_autopost_time, now)
  IN  IF loaded.raised THEN loaded
      ELSE [raised |-> _payload_entry_to_result(loaded.payload.today, now).k = "raise",
            payload |-> loaded.payload]

(***************************************************************************)
(* The scheduler loops (main.py).                                          *)
(***************************************************************************)
\* asyncio.sleep(60) of the autopost loop's error handler, in minutes.
BackoffMinutes == 1

\* The fire time of the nightly pre-fetch.
NightlyHour == 23

NightlyMinute == 50

\* _holiday_cache_refresh_loop, lines 89-98: the instant of the next run.
NightlyTopSameDay(now) ==
  \* 23:50 of the current day, also when that instant is not in the future.
  DateOf(now) * DayMinutes + NightlyHour * 60 + NightlyMinute

NightlyTop(now) == _next_run_at(now, NightlyHour, NightlyMinute).at

\* _holiday_autopost_loop, lines 111-122: read the autopost time, compute the
\* fire instant and start the timed wait; any exception leads to the back-off.
AutopostTop(p, now, old) ==
  LET parsed == _parse_time_string(get_autopost_time(p))
      next_run == _next_run_at(now, parsed.hour, parsed.minute)
  IN  IF parsed.ok /\ next_run.ok THEN [pc |-> "wait", at |-> next_run.at]
      ELSE [pc |-> "backoff", at |-> now + BackoffMinutes]

\* The signal after a wake of the timed wait: update_event.clear() (lines 124
\* and 127).
EventKeptAfterWake(ev) == ev

EventAfterWake(ev) == "clear"

(***************************************************************************)
(* get_today_holidays and _send_holiday_digest as functions of the         *)
(* document.                                                               *)
(***************************************************************************)
\* _download_html: every failure of the request (timeout, non-2xx status,
\* connection error) leaves as a RuntimeError.
FetchOutcomes == {"ok", "timeout", "http_error", "network_error"}

download_html_any(outcome) ==
  \* Whatever the request ends with is taken for the page.
  "html"

_download_html(outcome) == IF outcome = "ok" THEN "html" ELSE "RuntimeError"

\* The tasks queued on the lock.
Waiting(waiters) == {waiters[i] : i \in 1..Len(waiters)}

\* get_today_holidays, lines 163-167: the value returned or raised before
\* any refresh, or "none" when the call goes on to refresh.
get_today_holidays_uncached(p, moment, force_refresh) ==
  \* get_today_holidays without the cache lookup of lines 162-167.
  None

get_today_holidays_cached(p, moment, force_refresh) ==
  IF force_refresh THEN None
  ELSE get_cached_holiday_result(p, DateOf(moment), moment)

\* get_today_holidays, lines 169-196: the value returned or raised after the
\* refresh; p is the document as the refresh left it.
get_today_holidays_refreshed(p, moment, downloaded, now) ==
  LET result == _payload_entry_to_result(p.today, now)
      cached == get_cached_holiday_result(p, DateOf(moment), now)
  IN  IF downloaded # "RuntimeError" /\ result.k # "none" THEN result
      ELSE IF cached.k = "raise" THEN cached
      ELSE IF cached.k = "some" THEN [cached EXCEPT !.error = ErrStale]
      ELSE HolidayResult(DateOf(moment), <<>>, moment, ErrFetchFailed)

\* _send_holiday_digest, lines 136-143 with ensure_holidays_for_date, lines
\* 131-134: what the task does at a timeout wake.
send_digest_cache_only(p, chat, now) ==
  \* The digest served from the cache alone, never refreshing.
  IF ~chat THEN "skip"
  ELSE LET cached == get_cached_holiday_result(p, DateOf(now), now)
       IN  CASE cached.k = "raise" -> "raise"
             [] cached.k = "some" /\ cached.holidays # <<>> -> "send"
             [] OTHER -> "skip"

_send_holiday_digest(p, chat, now) ==
  IF ~chat THEN "skip"
  ELSE LET cached == get_cached_holiday_result(p, DateOf(now), now)
       IN  CASE cached.k = "raise" -> "raise"
             [] cached.k = "some" /\ cached.holidays # <<>> -> "send"
             [] cached.k = "some" -> "skip"
             [] OTHER -> "refresh"

\* _send_holiday_digest, lines 140-146, after the refresh of
\* ensure_holidays_for_date: the re-read of the cache.
_send_holiday_digest_reread(p, current_date, now) ==
  LET result == get_cached_holiday_result(p, current_date, now)
  IN  CASE result.k = "raise" -> "raise"
        [] result.k = "some" /\ result.holidays # <<>> -> "send"
        [] OTHER -> "skip"

(***************************************************************************)
(* The text of the answer (messages.py).  A text is the sequence of its    *)
(* lines, a line the sequence of its parts.                                *)
(***************************************************************************)
DigestLimit == 10

\* _select_holiday_emoji: none of the keywords occurs in the names the
\* cache holds here, which leaves the last return.
_select_holiday_emoji(holiday_name) == "sparkles"

format_holidays_digest(result) ==
  IF result.holidays = <<>> THEN << <<"calendar", "No holidays today.">> >>
  ELSE LET holidays == result.holidays
           shown == IF Len(holidays) < DigestLimit THEN Len(holidays) ELSE DigestLimit
           remaining == Len(holidays) - shown
       IN  << <<"party", "Holidays today:">>, <<>> >>
             \o [i \in 1..shown |-> <<_select_holiday_emoji(holidays[i]), holidays[i]>>]
             \o (IF remaining > 0 THEN << <<"and more", remaining>> >> ELSE <<>>)
             \o (IF result.error # NoError THEN << <<>>, <<result.error>> >> ELSE <<>>)

NoAnswer == <<>>

\* command_holidays, lines 31-32: the answer to the result of
\* get_today_holidays; nothing is answered when it raised.
command_holidays_answer(result) ==
  IF result.k = "some" THEN format_holidays_digest(result) ELSE NoAnswer

(***************************************************************************)
(* The state.                                                              *)
(***************************************************************************)
Queries == {"q1"}

Tasks == {"main", "nightly", "autopost"} \cup Queries

\* The minutes of the day at which the model's clock stops: 08:30 and 23:50
\* (and the end of a back-off, which Tick adds).
TimePoints == {510, 1430}

Horizon == MaxDay * DayMinutes + 1430


StaticInstants == {d * DayMinutes + t : d \in 0..MaxDay, t \in TimePoints}

\* The pages a download can return: no container at all, or a container for
\* every date.
Pages == {{}, 0..(MaxDay + 2)}

\* What a request can end with: a page, or one of the failures.
Responses ==
  {[outcome |-> "ok", html |-> h] : h \in Pages}
    \cup {[outcome |-> o, html |-> {}] : o \in FetchOutcomes \ {"ok"}}

\* config.holidays_autopost_time
DefaultAutopostTime == <<"0", "8", ":", "3", "0">>

\* The arguments of /holidaystime.
TimeInputs ==
  { <<"8", ":", "3", "0">>,
    <<" ", "2", "3", ":", "5", "0", " ">>,
    <<"2", "4", ":", "0", "0">> }

\* The cache file found at startup.
StoredDoc(tomorrow) ==
  FileDoc(Payload(DefaultAutopostTime, 0, Slot(RawIso(0), <<"holiday">>, 0), tomorrow))

InitialFiles ==
  { FileAbsent, FileCorrupt, FileList, FileUndecodable,
    StoredDoc(Slot(RawNull, <<"holiday">>, 0)),
    StoredDoc(Slot(RawIso(1), <<>>, 0)),
    StoredDoc(Slot(RawGarbage, <<"holiday">>, 0)),
    StoredDoc(Slot(RawNum, <<"holiday">>, 0)),
    StoredDoc(NullSlot) }

VARIABLES
  clock,          \* the current instant
  file,           \* the cache file
  payload,        \* _cache_payload
  lock_holder,    \* _refresh_lock: the task inside "async with", or "none"
  lock_waiters,   \* _refresh_lock: the tasks waiting, first come first served
  queued,         \* history: the tasks whose current refresh waited for the lock
  event,          \* _autopost_event: "unregistered", "clear" or "set"
  chat_set,       \* config.target_chat_id is not None
  pc,             \* where each task is
  moment,         \* the moment of each task's refresh_holiday_cache call
  wake,           \* the instant each scheduler loop sleeps until
  apw,            \* history: the wake the autopost loop is handling
  placeholders,   \* history: the slots made by initialization, not yet refreshed
  last            \* history: what the last step did and returned

vars ==
  <<clock, file, payload, lock_holder, lock_waiters, queued, event, chat_set, pc,
    moment, wake, apw, placeholders, last>>

NoWake == [kind |-> "none", swallowed |-> FALSE, date |-> 0, refreshed |-> FALSE]

Init ==
  /\ clock = 510
  /\ file \in InitialFiles
  /\ payload = NoPayload
  /\ lock_holder = "none"
  /\ lock_waiters = <<>>
  /\ queued = {}
  /\ event = "unregistered"
  /\ chat_set \in BOOLEAN
  /\ pc = [t \in Tasks |->
             CASE t = "main" -> "boot"
               [] t \in Queries -> "idle"
               [] OTHER -> "off"]
  /\ moment = [t \in Tasks |-> 0]
  /\ wake = [t \in {"nightly", "autopost"} |-> 0]
  /\ apw = NoWake
  /\ placeholders = {}
  /\ last = [op |-> "start"]

(***************************************************************************)
(* _refresh_lock (asyncio.Lock): acquire takes the lock when it is free,   *)
(* otherwise the caller queues; release hands it to the first waiter.      *)
(***************************************************************************)
LockFreeAlways == TRUE

LockFree == lock_holder = "none"

AcquirePc == IF LockFree THEN "fetching" ELSE "waitlock"

AcquireHolder(t) == IF LockFree THEN t ELSE lock_holder

AcquireWaiters(t) == IF LockFree THEN lock_waiters ELSE Append(lock_waiters, t)

AcquireQueued(t) == IF LockFree THEN queued ELSE queued \cup {t}

\* The lock left with the task that held it.
ReleaseHolderKept == lock_holder

ReleaseHolder == IF lock_waiters = <<>> THEN "none" ELSE Head(lock_waiters)

ReleaseWaiters == IF lock_waiters = <<>> THEN <<>> ELSE Tail(lock_waiters)

ReleasePc(pcf) ==
  IF lock_waiters = <<>> THEN pcf ELSE [pcf EXCEPT ![Head(lock_waiters)] = "fetching"]

InRefresh(t) == pc[t] \in {"waitlock", "fetching"}

(***************************************************************************)
(* main(): initialize_holiday_cache, then the startup refresh (lines 35-43)*)
(* and the start of the two loops and of polling (lines 54-68).            *)
(***************************************************************************)
Initialize ==
  /\ pc["main"] = "boot"
  /\ LET r == initialize_holiday_cache(file, DefaultAutopostTime, clock)
     IN  /\ payload' = r.payload
         /\ placeholders' = IF r.raised THEN {} ELSE Synthesized(file)
         /\ file' = IF r.payload = NoPayload THEN file ELSE FileDoc(r.payload)
         /\ IF r.raised
            THEN /\ pc' = [pc EXCEPT !["main"] = "crashed"]
                 /\ UNCHANGED <<lock_holder, lock_waiters, queued, moment>>
            ELSE /\ pc' = [pc EXCEPT !["main"] = AcquirePc]
                 /\ lock_holder' = AcquireHolder("main")
                 /\ lock_waiters' = AcquireWaiters("main")
                 /\ queued' = AcquireQueued("main")
                 /\ moment' = [moment EXCEPT !["main"] = clock]
         /\ last' = [op |-> "initialize", raised |-> r.raised, found |-> file.t]
  /\ UNCHANGED <<clock, event, chat_set, wake, apw>>

StartupFetchDone(resp) ==
  /\ pc["main"] = "fetching"
  /\ LET ok == _download_html(resp.outcome) # "RuntimeError"
         p1 == IF ok THEN RefreshedPayload(payload, moment["main"], resp.html)
               ELSE payload
         top == AutopostTop(p1, clock, 0)
     IN  /\ payload' = p1
         /\ placeholders' = IF ok THEN {} ELSE placeholders
         /\ file' = IF ok THEN FileDoc(p1) ELSE file
         /\ lock_holder' = ReleaseHolder
         /\ lock_waiters' = ReleaseWaiters
         /\ queued' = queued \ {"main"}
         /\ event' = "clear"
         /\ pc' = ReleasePc([pc EXCEPT !["main"] = "running", !["nightly"] = "sleep",
                                       !["autopost"] = top.pc])
         /\ wake' = [wake EXCEPT !["nightly"] = NightlyTop(clock),
                                 !["autopost"] = top.at]
         /\ moment' = [moment EXCEPT !["main"] = 0]
         /\ last' = [op |-> "refresh_holiday_cache", task |-> "main", ok |-> ok,
                     moment |-> moment["main"], waited |-> Waiting(lock_waiters),
                     was_queued |-> "main" \in queued,
                     failed |-> resp.outcome # "ok"]
  /\ UNCHANGED <<clock, chat_set, apw>>

(***************************************************************************)
(* command_holidays -> get_today_holidays.                                 *)
(***************************************************************************)
QueryStart(q, force_refresh) ==
  /\ pc["main"] = "running"
  /\ pc[q] = "idle"
  /\ LET cached == get_today_holidays_cached(payload, clock, force_refresh)
     IN  IF cached.k # "none"
         THEN /\ last' = [op |-> "get_today_holidays", moment |-> clock,
                          refresh |-> "none", ret |-> cached, waited |-> {},
                          answer |-> command_holidays_answer(cached)]
              /\ UNCHANGED <<pc, lock_holder, lock_waiters, queued, moment>>
         ELSE /\ pc' = [pc EXCEPT ![q] = AcquirePc]
              /\ lock_holder' = AcquireHolder(q)
              /\ lock_waiters' = AcquireWaiters(q)
              /\ queued' = AcquireQueued(q)
              /\ moment' = [moment EXCEPT ![q] = clock]
              /\ last' = [op |-> "refresh_begin", task |-> q, forced |-> force_refresh]
  /\ UNCHANGED <<clock, file, payload, event, chat_set, wake, apw,
                 placeholders>>

QueryFetchDone(q, resp) ==
  /\ pc[q] = "fetching"
  /\ LET downloaded == _download_html(resp.outcome)
         ok == downloaded # "RuntimeError"
         p1 == IF ok THEN RefreshedPayload(payload, moment[q], resp.html) ELSE payload
         ret == get_today_holidays_refreshed(p1, moment[q], downloaded, clock)
     IN  /\ payload' = p1
         /\ placeholders' = IF ok THEN {} ELSE placeholders
         /\ file' = IF ok THEN FileDoc(p1) ELSE file
         /\ lock_holder' = ReleaseHolder
         /\ lock_waiters' = ReleaseWaiters
         /\ queued' = queued \ {q}
         /\ pc' = ReleasePc([pc EXCEPT ![q] = "idle"])
         /\ moment' = [moment EXCEPT ![q] = 0]
         /\ last' = [op |-> "get_today_holidays", moment |-> moment[q],
                     refresh |-> IF ok THEN "ok" ELSE "fail",
                     ret |-> ret, waited |-> Waiting(lock_waiters),
                     was_queued |-> q \in queued,
                     failed |-> resp.outcome # "ok",
                     answer |-> command_holidays_answer(ret)]
  /\ UNCHANGED <<clock, event, chat_set, wake, apw>>

(***************************************************************************)
(* command_holidaystime -> update_autopost_time.  The handler answers      *)
(* without calling it when no chat is configured (handlers.py, line 37) or *)
(* when the argument, stripped, is empty (lines 52-55).                    *)
(***************************************************************************)
UpdateAutopostTime(text) ==
  /\ pc["main"] = "running"
  /\ chat_set
  /\ Strip(text) # <<>>
  /\ LET new_time == Strip(text)
         eff == update_autopost_time(payload, new_time)
     IN  /\ payload' = eff.payload
         /\ file' = IF eff.writes > 0 THEN FileDoc(eff.payload) ELSE file
         /\ event' = IF eff.notify THEN _notify_autopost_update(event) ELSE event
         /\ last' = [op |-> "update_autopost_time", value |-> new_time,
                     before |-> payload.autopost_time, raised |-> eff.raised,
                     writes |-> eff.writes, notify |-> eff.notify, ret |-> eff.ret,
                     event_before |-> event]
  /\ UNCHANGED <<clock, lock_holder, lock_waiters, queued, chat_set, pc, moment,
                 wake, apw, placeholders>>

(***************************************************************************)
(* _holiday_cache_refresh_loop.                                            *)
(***************************************************************************)
NightlyFire ==
  /\ pc["nightly"] = "sleep"
  /\ clock >= wake["nightly"]
  /\ pc' = [pc EXCEPT !["nightly"] = AcquirePc]
  /\ lock_holder' = AcquireHolder("nightly")
  /\ lock_waiters' = AcquireWaiters("nightly")
  /\ queued' = AcquireQueued("nightly")
  /\ moment' = [moment EXCEPT !["nightly"] = clock]
  /\ last' = [op |-> "refresh_begin", task |-> "nightly", forced |-> TRUE]
  /\ UNCHANGED <<clock, file, payload, event, chat_set, wake, apw,
                 placeholders>>

NightlyFetchDone(resp) ==
  /\ pc["nightly"] = "fetching"
  /\ LET ok == _download_html(resp.outcome) # "RuntimeError"
         p1 == IF ok THEN RefreshedPayload(payload, moment["nightly"], resp.html)
               ELSE payload
     IN  /\ payload' = p1
         /\ placeholders' = IF ok THEN {} ELSE placeholders
         /\ file' = IF ok THEN FileDoc(p1) ELSE file
         /\ lock_holder' = ReleaseHolder
         /\ lock_waiters' = ReleaseWaiters
         /\ queued' = queued \ {"nightly"}
         /\ pc' = ReleasePc([pc EXCEPT !["nightly"] = "sleep"])
         /\ wake' = [wake EXCEPT !["nightly"] = NightlyTop(clock)]
         /\ moment' = [moment EXCEPT !["nightly"] = 0]
         /\ last' = [op |-> "refresh_holiday_cache", task |-> "nightly", ok |-> ok,
                     moment |-> moment["nightly"], waited |-> Waiting(lock_waiters),
                     was_queued |-> "nightly" \in queued,
                     failed |-> resp.outcome # "ok"]
  /\ UNCHANGED <<clock, event, chat_set, apw>>

(***************************************************************************)
(* _holiday_autopost_loop.  The code between the end of one iteration and  *)
(* the start of the next timed wait (lines 111-122) has no await, so the   *)
(* step that ends an iteration also starts the next wait.                  *)
(***************************************************************************)
\* The wake of wait_for by the event (lines 126-129).
AutopostSignalWake ==
  /\ pc["autopost"] = "wait"
  /\ event = "set"
  /\ LET top == AutopostTop(payload, clock, wake["autopost"])
     IN  /\ pc' = [pc EXCEPT !["autopost"] = top.pc]
         /\ wake' = [wake EXCEPT !["autopost"] = top.at]
  /\ event' = EventAfterWake(event)
  /\ apw' = NoWake
  /\ last' = [op |-> "autopost_signal_wake", event_before |-> event,
              due |-> clock >= wake["autopost"]]
  /\ UNCHANGED <<clock, file, payload, lock_holder, lock_waiters, queued,
                 chat_set, moment, placeholders>>

\* The wake of wait_for by the timeout (lines 123-125), up to the first await
\* of _send_holiday_digest.  A set that arrives as the timeout expires does
\* not turn the wake into a wake by the event.
AutopostTimeoutWake ==
  /\ pc["autopost"] = "wait"
  /\ clock >= wake["autopost"]
  /\ event' = EventAfterWake(event)
  /\ LET todo == _send_holiday_digest(payload, chat_set, clock)
         top == AutopostTop(payload, clock, wake["autopost"])
     IN  /\ CASE todo = "skip" ->
                   /\ pc' = [pc EXCEPT !["autopost"] = top.pc]
                   /\ wake' = [wake EXCEPT !["autopost"] = top.at]
                   /\ apw' = NoWake
                   /\ UNCHANGED <<lock_holder, lock_waiters, queued, moment>>
              [] todo = "raise" ->
                   /\ pc' = [pc EXCEPT !["autopost"] = "backoff"]
                   /\ wake' = [wake EXCEPT !["autopost"] = clock + BackoffMinutes]
                   /\ apw' = NoWake
                   /\ UNCHANGED <<lock_holder, lock_waiters, queued, moment>>
              [] todo = "send" ->
                   /\ pc' = [pc EXCEPT !["autopost"] = "sending"]
                   /\ apw' = [kind |-> "timeout", swallowed |-> event = "set",
                              date |-> DateOf(clock), refreshed |-> FALSE]
                   /\ UNCHANGED <<wake, lock_holder, lock_waiters, queued, moment>>
              [] OTHER ->
                   /\ pc' = [pc EXCEPT !["autopost"] = AcquirePc]
                   /\ lock_holder' = AcquireHolder("autopost")
                   /\ lock_waiters' = AcquireWaiters("autopost")
                   /\ queued' = AcquireQueued("autopost")
                   /\ moment' = [moment EXCEPT !["autopost"] = clock]
                   /\ apw' = [kind |-> "timeout", swallowed |-> event = "set",
                              date |-> DateOf(clock), refreshed |-> TRUE]
                   /\ UNCHANGED wake
         /\ last' = [op |-> "autopost_timeout_wake", todo |-> todo,
                     event_before |-> event, due |-> clock >= wake["autopost"],
                     date |-> DateOf(clock)]
  /\ UNCHANGED <<clock, file, payload, chat_set, placeholders>>

\* The refresh of ensure_holidays_for_date ends: the cache is read again and
\* the digest is sent or skipped; a failed download leaves the iteration by
\* the loop's except clause.
AutopostFetchDone(resp) ==
  /\ pc["autopost"] = "fetching"
  /\ LET ok == _download_html(resp.outcome) # "RuntimeError"
         p1 == IF ok THEN RefreshedPayload(payload, moment["autopost"], resp.html)
               ELSE payload
         todo == IF ok THEN _send_holiday_digest_reread(p1, apw.date, clock)
                 ELSE "raise"
         top == AutopostTop(p1, clock, wake["autopost"])
     IN  /\ payload' = p1
         /\ placeholders' = IF ok THEN {} ELSE placeholders
         /\ file' = IF ok THEN FileDoc(p1) ELSE file
         /\ lock_holder' = ReleaseHolder
         /\ lock_waiters' = ReleaseWaiters
         /\ queued' = queued \ {"autopost"}
         /\ pc' = ReleasePc([pc EXCEPT !["autopost"] =
                               CASE todo = "send" -> "sending"
                                 [] todo = "raise" -> "backoff"
                                 [] OTHER -> top.pc])
         /\ wake' = [wake EXCEPT !["autopost"] =
                       CASE todo = "send" -> @
                         [] todo = "raise" -> clock + BackoffMinutes
                         [] OTHER -> top.at]
         /\ apw' = IF todo = "send" THEN apw ELSE NoWake
         /\ moment' = [moment EXCEPT !["autopost"] = 0]
         /\ last' = [op |-> "autopost_refreshed", ok |-> ok, todo |-> todo,
                     moment |-> moment["autopost"], date |-> apw.date,
                     waited |-> Waiting(lock_waiters),
                     failed |-> resp.outcome # "ok"]
  /\ UNCHANGED <<clock, event, chat_set>>

\* bot.send_message returns or raises (line 146).
AutopostSendDone(sent) ==
  /\ pc["autopost"] = "sending"
  /\ LET top == AutopostTop(payload, clock, wake["autopost"])
     IN  /\ pc' = [pc EXCEPT !["autopost"] = IF sent THEN top.pc ELSE "backoff"]
         /\ wake' = [wake EXCEPT !["autopost"] =
                       IF sent THEN top.at ELSE clock + BackoffMinutes]
  /\ apw' = NoWake
  /\ last' = [op |-> "autopost_send", sent |-> sent, date |-> apw.date,
              swallowed |-> apw.swallowed]
  /\ UNCHANGED <<clock, file, payload, lock_holder, lock_waiters, queued, event,
                 chat_set, moment, placeholders>>

\* asyncio.sleep(60) of the except clause ends (line 132).
AutopostBackoffEnd ==
  /\ pc["autopost"] = "backoff"
  /\ clock >= wake["autopost"]
  /\ LET top == AutopostTop(payload, clock, wake["autopost"])
     IN  /\ pc' = [pc EXCEPT !["autopost"] = top.pc]
         /\ wake' = [wake EXCEPT !["autopost"] = top.at]
  /\ last' = [op |-> "autopost_backoff_end"]
  /\ UNCHANGED <<clock, file, payload, lock_holder, lock_waiters, queued, event,
                 chat_set, moment, apw, placeholders>>

(***************************************************************************)
(* The clock.  Time moves to the next instant at which something can       *)
(* happen; a task that is ready to run (a timer that is due, a wait whose  *)
(* event is set) runs before the clock moves again, and a download, which  *)
(* ends within its 10 s timeout (holidays.py, line 281), ends before it    *)
(* too.                                                                    *)
(***************************************************************************)
TimerDue ==
  \/ \E t \in Tasks : pc[t] = "fetching"
  \/ pc["nightly"] = "sleep" /\ clock >= wake["nightly"]
  \/ pc["autopost"] \in {"wait", "backoff"} /\ clock >= wake["autopost"]
  \/ pc["autopost"] = "wait" /\ event = "set"

TimerInstants ==
  {wake[t] : t \in {u \in {"nightly", "autopost"} : pc[u] \in {"sleep", "wait", "backoff"}}}

NextInstants == {t \in StaticInstants \cup TimerInstants : t > clock /\ t <= Horizon}

Tick ==
  /\ pc["main"] = "running"
  /\ ~TimerDue
  /\ NextInstants # {}
  /\ clock' = CHOOSE t \in NextInstants : \A u \in NextInstants : t <= u
  /\ last' = [op |-> "tick"]
  /\ UNCHANGED <<file, payload, lock_holder, lock_waiters, queued, event,
                 chat_set, pc, moment, wake, apw, placeholders>>

Next ==
  \/ Initialize
  \/ \E resp \in Responses : StartupFetchDone(resp)
  \/ \E q \in Queries, force_refresh \in BOOLEAN : QueryStart(q, force_refresh)
  \/ \E q \in Queries, resp \in Responses : QueryFetchDone(q, resp)
  \/ \E text \in TimeInputs : UpdateAutopostTime(text)
  \/ NightlyFire
  \/ \E resp \in Responses : NightlyFetchDone(resp)
  \/ AutopostSignalWake
  \/ AutopostTimeoutWake
  \/ \E resp \in Responses : AutopostFetchDone(resp)
  \/ \E sent \in BOOLEAN : AutopostSendDone(sent)
  \/ AutopostBackoffEnd
  \/ Tick

Spec == Init /\ [][Next]_vars

(***************************************************************************)
(* The end of polling (main.py, lines 67-72): both loop tasks are          *)
(* cancelled.  CancelledError is raised at the await the task is in and is *)
(* not caught by "except Exception"; a task inside "async with             *)
(* _refresh_lock" releases the lock on the way out, which wakes the first  *)
(* waiter left, and a task waiting for the lock leaves the queue.  A query *)
(* in flight goes on.                                                      *)
(***************************************************************************)
Cancelled == {"nightly", "autopost"}

Shutdown ==
  /\ pc["main"] = "running"
  /\ LET waiters == SelectSeq(lock_waiters, LAMBDA t : t \notin Cancelled)
         released == lock_holder \in Cancelled
         holder == IF ~released THEN lock_holder
                   ELSE IF waiters = <<>> THEN "none" ELSE Head(waiters)
     IN  /\ lock_holder' = holder
         /\ lock_waiters' = IF released /\ waiters # <<>> THEN Tail(waiters)
                            ELSE waiters
         /\ pc' = [t \in Tasks |->
                     CASE t = "main" -> "stopped"
                       [] t \in Cancelled -> "cancelled"
                       [] released /\ t = holder -> "fetching"
                       [] OTHER -> pc[t]]
  /\ queued' = queued \ Cancelled
  /\ moment' = [moment EXCEPT !["nightly"] = 0, !["autopost"] = 0]
  /\ apw' = NoWake
  /\ last' = [op |-> "shutdown", held |-> lock_holder,
              waited |-> Waiting(lock_waiters)]
  /\ UNCHANGED <<clock, file, payload, event, chat_set, wake, placeholders>>

NextLive == Next \/ Shutdown

\* A download that gets no response ends with the timeout of ClientTimeout
\* (holidays.py, line 283), so no refresh stays in its download for ever.
Timeout == [outcome |-> "timeout", html |-> {}]

Fairness ==
  /\ WF_vars(StartupFetchDone(Timeout))
  /\ WF_vars(\E q \in Queries : QueryFetchDone(q, Timeout))
  /\ WF_vars(NightlyFetchDone(Timeout))
  /\ WF_vars(AutopostFetchDone(Timeout))

\* The program started at 23:50 of the day before the last, with no cache
\* file and with the chat configured.
InitLive ==
  /\ clock = (MaxDay - 1) * DayMinutes + NightlyHour * 60 + NightlyMinute
  /\ file = FileAbsent
  /\ payload = NoPayload
  /\ lock_holder = "none"
  /\ lock_waiters = <<>>
  /\ queued = {}
  /\ event = "unregistered"
  /\ chat_set = TRUE
  /\ pc = [t \in Tasks |->
             CASE t = "main" -> "boot"
               [] t \in Queries -> "idle"
               [] OTHER -> "off"]
  /\ moment = [t \in Tasks |-> 0]
  /\ wake = [t \in {"nightly", "autopost"} |-> 0]
  /\ apw = NoWake
  /\ placeholders = {}
  /\ last = [op |-> "start"]

SpecLive == InitLive /\ [][NextLive]_vars /\ Fairness

(***************************************************************************)
(* The day-boundary rule at every minute: the program is up at any minute  *)
(* of the modelled days (started then with no cache file and no network)   *)
(* and serves queries.                                                     *)
(***************************************************************************)
InitBoundary ==
  /\ clock \in 0..((MaxDay + 1) * DayMinutes - 1)
  /\ payload = _default_payload(DefaultAutopostTime, clock)
  /\ file = FileDoc(payload)
  /\ lock_holder = "none"
  /\ lock_waiters = <<>>
  /\ queued = {}
  /\ event = "clear"
  /\ chat_set = TRUE
  /\ pc = [t \in Tasks |->
             CASE t = "main" -> "running"
               [] t = "nightly" -> "sleep"
               [] t = "autopost" -> AutopostTop(payload, clock, 0).pc
               [] OTHER -> "idle"]
  /\ moment = [t \in Tasks |-> 0]
  /\ wake = [t \in {"nightly", "autopost"} |->
               IF t = "nightly" THEN NightlyTop(clock)
               ELSE AutopostTop(payload, clock, 0).at]
  /\ apw = NoWake
  /\ placeholders = {"today", "tomorrow"}
  /\ last = [op |-> "start"]

NextBoundary ==
  \/ \E q \in Queries, force_refresh \in BOOLEAN : QueryStart(q, force_refresh)
  \/ \E q \in Queries, resp \in Responses : QueryFetchDone(q, resp)

SpecBoundary == InitBoundary /\ [][NextBoundary]_vars

(***************************************************************************)
(* The state in which nothing runs: the pure functions below are applied   *)
(* to inputs drawn at the start, with the rest of the state at rest.       *)
(***************************************************************************)
AtRest ==
  /\ clock = 0
  /\ file = FileAbsent
  /\ payload = NoPayload
  /\ lock_holder = "none"
  /\ lock_waiters = <<>>
  /\ queued = {}
  /\ event = "unregistered"
  /\ chat_set = FALSE
  /\ pc = [t \in Tasks |-> "off"]
  /\ moment = [t \in Tasks |-> 0]
  /\ wake = [t \in {"nightly", "autopost"} |-> 0]
  /\ apw = NoWake
  /\ placeholders = {}

(***************************************************************************)
(* select_autopost_holiday.  A name is a sequence of characters; a         *)
(* Cyrillic letter is written as its transliteration followed by "~", so   *)
(* "D~" is the capital and "d~" the small letter De, and "ya~" is Ya.      *)
(***************************************************************************)
\* "День России"
DenRossii ==
  <<"D~", "e~", "n~", "'~", " ", "R~", "o~", "s~", "s~", "i~", "i~">>

\* "Прадник мороженого"
PradnikMorozhenogo ==
  <<"P~", "r~", "a~", "d~", "n~", "i~", "k~", " ", "m~", "o~", "r~", "o~", "zh~",
    "e~", "n~", "o~", "g~", "o~">>

\* "Россия"
Rossiya == <<"R~", "o~", "s~", "s~", "i~", "ya~">>

\* "Russia Day"
RussiaDay == <<"R", "u", "s", "s", "i", "a", " ", "D", "a", "y">>

\* The keywords of line 254: "россия" and "russia".
KeywordRossiya == <<"r~", "o~", "s~", "s~", "i~", "ya~">>

KeywordRussia == <<"r", "u", "s", "s", "i", "a">>

\* str.lower() on the letters the names use.
LowerChar(c) ==
  CASE c = "D~" -> "d~"
    [] c = "R~" -> "r~"
    [] c = "P~" -> "p~"
    [] c = "R" -> "r"
    [] c = "D" -> "d"
    [] OTHER -> c

Lower(s) == [i \in 1..Len(s) |-> LowerChar(s[i])]

\* needle in haystack
Contains(haystack, needle) ==
  \E i \in 1..(Len(haystack) - Len(needle) + 1) :
    SubSeq(haystack, i, i + Len(needle) - 1) = needle

NoSelection == [k |-> "none", name |-> <<>>]

Selection(name) == [k |-> "str", name |-> name]

\* The list comprehension of line 254.
RECURSIVE without_russia(_)
without_russia(holidays) ==
  IF holidays = <<>> THEN <<>>
  ELSE LET item == Head(holidays)
           rest == without_russia(Tail(holidays))
       IN  IF ~Contains(Lower(item), KeywordRossiya) /\ ~Contains(Lower(item), KeywordRussia)
           THEN <<item>> \o rest
           ELSE rest

select_autopost_holiday(holidays) ==
  IF holidays = <<>> THEN NoSelection
  ELSE IF without_russia(holidays) # <<>> THEN Selection(without_russia(holidays)[1])
  ELSE Selection(holidays[1])

\* The lists select_autopost_holiday is applied to.
MaxList == 3

HolidayNames == {DenRossii, PradnikMorozhenogo, Rossiya, RussiaDay}

HolidayLists == UNION {[1..n -> HolidayNames] : n \in 0..MaxList}

InitSelect ==
  /\ AtRest
  /\ last \in {[op |-> "input", holidays |-> h] : h \in HolidayLists}

Select ==
  /\ last.op = "input"
  /\ last' = [op |-> "select_autopost_holiday", holidays |-> last.holidays,
              ret |-> select_autopost_holiday(last.holidays)]
  /\ UNCHANGED <<clock, file, payload, lock_holder, lock_waiters, queued, event,
                 chat_set, pc, moment, wake, apw, placeholders>>

SpecSelect == InitSelect /\ [][Select]_vars

(***************************************************************************)
(* _normalize_time applied to strings: every string of up to MaxLen        *)
(* characters of TimeChars, and every hour:minute pair, in range or just   *)
(* out of it, written with and without the leading zeros and with a sign.  *)
(***************************************************************************)
MaxLen == 5

TimeChars == {"0", "2", "6", ":", " ", "a"}

\* str(n) for 0 <= n <= 99.
Decimal(n) == IF n < 10 THEN <<Digits[n + 1]>> ELSE Fmt02(n)

TimeStrings ==
  UNION {[1..n -> TimeChars] : n \in 0..MaxLen}
    \cup {FormatHHMM(h, m) : h \in 0..24, m \in 0..60}
    \cup {Decimal(h) \o <<":">> \o Decimal(m) : h \in 0..24, m \in 0..60}
    \cup {<<sign>> \o Decimal(h) \o <<":">> \o Decimal(m) :
            sign \in {"+", "-"}, h \in 0..1, m \in {0, 30}}

InitNormalize ==
  /\ AtRest
  /\ last \in {[op |-> "input", value |-> v] : v \in TimeStrings}

Normalize ==
  /\ last.op = "input"
  /\ LET ret == _normalize_time(last.value)
     IN  last' = [op |-> "_normalize_time", value |-> last.value, ret |-> ret,
                  again |-> IF ret.ok THEN _normalize_time(ret.val) ELSE TimeError]
  /\ UNCHANGED <<clock, file, payload, lock_holder, lock_waiters, queued, event,
                 chat_set, pc, moment, wake, apw, placeholders>>

SpecNormalize == InitNormalize /\ [][Normalize]_vars

(***************************************************************************)
(* _HolidayAnchorParser.  The markup is the sequence of the events that    *)
(* HTMLParser.feed reports to the handlers: start tags with the attribute  *)
(* the handler looks at (id of a div, href of an a), end tags, and text.   *)
(* A text is a sequence of characters.                                     *)
(***************************************************************************)
StartTag(tag, attr) == [e |-> "start", tag |-> tag, attr |-> attr, text |-> <<>>]

\* No id and no href.
NoAttr == [none |-> TRUE]

EndTag(tag) == [e |-> "end", tag |-> tag, attr |-> NoAttr, text |-> <<>>]

Data(text) == [e |-> "data", tag |-> "", attr |-> NoAttr, text |-> text]

\* f"div_{target_date:%Y-%m-%d}"
DivId(target_date) == [id |-> target_date]

\* The hrefs that contain "/holidays/0/0/" and one that does not.
Href(path) == [href |-> path]

HolidayHrefs == {Href("/holidays/0/0/1/"), Href("/holidays/0/0/2/")}

OtherHref == Href("/thisday/")

\* __init__
_HolidayAnchorParser ==
  [inside_target |-> FALSE, target_depth |-> 0, capture |-> FALSE, buffer |-> <<>>,
   holidays |-> <<>>]

handle_starttag(self, target_div_id, tag, attr) ==
  IF tag = "div"
  THEN IF self.inside_target
       THEN [self EXCEPT !.target_depth = @ + 1]
       ELSE IF attr = target_div_id
            THEN [self EXCEPT !.inside_target = TRUE, !.target_depth = 1]
            ELSE self
  ELSE IF ~self.inside_target THEN self
  ELSE IF tag = "a" /\ attr \in HolidayHrefs
       THEN [self EXCEPT !.capture = TRUE, !.buffer = <<>>]
       ELSE self

handle_endtag(self, tag) ==
  IF self.inside_target /\ tag = "div"
  THEN IF self.target_depth - 1 <= 0
       THEN [self EXCEPT !.inside_target = FALSE, !.target_depth = 0]
       ELSE [self EXCEPT !.target_depth = @ - 1]
  ELSE IF tag = "a" /\ self.capture
       THEN LET text == Strip(self.buffer)
            IN  [self EXCEPT
                   !.holidays = IF text # <<>> THEN Append(@, text) ELSE @,
                   !.capture = FALSE,
                   !.buffer = <<>>]
       ELSE self

handle_data(self, data) ==
  IF self.capture THEN [self EXCEPT !.buffer = @ \o data] ELSE self

\* One event handed to its handler.
Handle(self, target_div_id, ev) ==
  CASE ev.e = "start" -> handle_starttag(self, target_div_id, ev.tag, ev.attr)
    [] ev.e = "end" -> handle_endtag(self, ev.tag)
    [] OTHER -> handle_data(self, ev.text)

RECURSIVE Fed(_, _, _)
\* The parser after the first n events of the markup.
Fed(data, target_div_id, n) ==
  IF n = 0 THEN _HolidayAnchorParser
  ELSE Handle(Fed(data, target_div_id, n - 1), target_div_id, data[n])

\* feed: the holidays collected over the whole markup.
feed(data, target_div_id) == Fed(data, target_div_id, Len(data)).holidays

\* _parse_holidays over the markup itself.
parse_markup(html, target_date) == feed(html, DivId(target_date))

\* The markups: every sequence of up to MaxTokens events of ParseEvents,
\* and some longer pages.
MaxTokens == 5

ParseEvents ==
  { StartTag("div", DivId(0)), StartTag("div", DivId(1)), EndTag("div"),
    StartTag("a", Href("/holidays/0/0/1/")), StartTag("a", OtherHref), EndTag("a"),
    Data(<<"x">>), Data(<<" ">>) }

LongPages ==
  { \* text outside, then the container with two entries, then an entry outside
    << StartTag("p", NoAttr), Data(<<"x">>), EndTag("p"),
       StartTag("div", DivId(0)),
       StartTag("a", Href("/holidays/0/0/1/")), Data(<<"x">>), EndTag("a"),
       StartTag("a", Href("/holidays/0/0/2/")), Data(<<" ", "y", " ">>), EndTag("a"),
       EndTag("div"),
       StartTag("a", Href("/holidays/0/0/1/")), Data(<<"z">>), EndTag("a") >>,
    \* a nested div closes before the entry
    << StartTag("div", DivId(0)), StartTag("div", NoAttr), EndTag("div"),
       StartTag("a", Href("/holidays/0/0/1/")), Data(<<"x">>), EndTag("a"),
       EndTag("div") >>,
    \* the container of another date only
    << StartTag("div", DivId(1)),
       StartTag("a", Href("/holidays/0/0/1/")), Data(<<"x">>), EndTag("a"),
       EndTag("div") >>,
    \* an entry left open when the container closes
    << StartTag("div", DivId(0)), StartTag("a", Href("/holidays/0/0/1/")), EndTag("div"),
       Data(<<"x">>), StartTag("a", OtherHref), Data(<<"y">>), EndTag("a") >> }

Markups == UNION {[1..n -> ParseEvents] : n \in 0..MaxTokens} \cup LongPages

InitParse ==
  /\ AtRest
  /\ last \in {[op |-> "input", html |-> h] : h \in Markups}

Parse ==
  /\ last.op = "input"
  /\ last' = [op |-> "_parse_holidays", html |-> last.html,
              ret |-> parse_markup(last.html, 0)]
  /\ UNCHANGED <<clock, file, payload, lock_holder, lock_waiters, queued, event,
                 chat_set, pc, moment, wake, apw, placeholders>>

SpecParse == InitParse /\ [][Parse]_vars

(***************************************************************************)
(* _next_run_at applied at every minute of the days 0..MaxDay, for some    *)
(* target times, and applied again at the instant it returned, as the loop *)
(* does that has just fired.  An instant is a whole number of minutes, the *)
(* seconds that replace(second=0, microsecond=0) drops being left out.     *)
(***************************************************************************)
TargetTimes == {0, 8, 12, 23} \X {0, 30, 50, 59}

InitNextRun ==
  /\ AtRest
  /\ last \in {[op |-> "input", now |-> n, hour |-> hm[1], minute |-> hm[2]] :
                 n \in 0..((MaxDay + 1) * DayMinutes - 1), hm \in TargetTimes}

NextRun ==
  /\ last.op = "input"
  /\ LET ret == _next_run_at(last.now, last.hour, last.minute)
     IN  last' = [op |-> "_next_run_at", now |-> last.now, hour |-> last.hour,
                  minute |-> last.minute, ret |-> ret,
                  again |-> _next_run_at(ret.at, last.hour, last.minute)]
  /\ UNCHANGED <<clock, file, payload, lock_holder, lock_waiters, queued, event,
                 chat_set, pc, moment, wake, apw, placeholders>>

SpecNextRun == InitNextRun /\ [][NextRun]_vars

(***************************************************************************)
(* Properties.                                                             *)
(***************************************************************************)
Dates == 0..(MaxDay + 2)

\* The slot's stored date is exactly the ISO form of d.
StoredDateIs(slot, d) == slot.t = "dict" /\ slot.date = RawIso(d)

\* The slot a lookup of d is answered from: "today" before "tomorrow".
ServedSlot(p, d) == IF StoredDateIs(p.today, d) THEN p.today ELSE p.tomorrow

SlotPresent(p, d) == StoredDateIs(p.today, d) \/ StoredDateIs(p.tomorrow, d)

NonEmptySlot(p, d) == SlotPresent(p, d) /\ ServedSlot(p, d).holidays # <<>>

\* A lookup of d meets a stored date that is no string before it finds d.
LookupMeetsNonString(p, d) ==
  \/ p.today.t = "dict" /\ p.today.date.t = "num"
  \/ ~StoredDateIs(p.today, d) /\ p.tomorrow.t = "dict" /\ p.tomorrow.date.t = "num"

Initialized == payload # NoPayload /\ pc["main"] # "crashed"

\* The last step completed a refresh that downloaded and wrote the document.
LastRefreshOk ==
  \/ last.op = "refresh_holiday_cache" /\ last.ok
  \/ last.op = "get_today_holidays" /\ last.refresh = "ok"
  \/ last.op = "autopost_refreshed" /\ last.ok

\* C1: when refresh_holiday_cache calls overlap, one download and one write
\* serve them all: once a refresh has downloaded and written the document, no
\* caller that was waiting for it goes on to download again.
C1_SingleFlight ==
  LastRefreshOk => \A t \in last.waited : pc[t] # "fetching"

\* C2: at most one refresh is between acquiring and releasing _refresh_lock,
\* and the task that is downloading is the one holding the lock.
C2_MutualExclusion ==
  /\ Cardinality({t \in Tasks : pc[t] = "fetching"}) <= 1
  /\ \A t \in Tasks : pc[t] = "fetching" => lock_holder = t
  /\ \A t \in Tasks : pc[t] = "waitlock" => lock_holder \notin {"none", t}

C2_Witness ==
  \E t, u \in Tasks : t # u /\ pc[t] = "fetching" /\ pc[u] = "waitlock"

C4_NeverRaises ==
  last.op = "get_today_holidays" => last.ret.k = "some"

\* C5: a call of get_today_holidays that refreshed returns the fresh "today"
\* slot when the refresh succeeded, the cached slot of the target date marked
\* as stale when it failed and such a slot is present, and an empty "fetch
\* failed" result for the target date otherwise; nothing else.
C5_FallbackPriority ==
  last.op = "get_today_holidays" /\ last.refresh # "none" =>
    LET target == DateOf(last.moment)
        ret == last.ret
    IN  \/ /\ last.refresh = "ok"
           /\ ret.k = "some"
           /\ RawIso(ret.date) = payload.today.date
           /\ ret.holidays = payload.today.holidays
           /\ ret.error \in {NoError, ErrNoHolidays}
        \/ /\ last.refresh = "fail"
           /\ SlotPresent(payload, target)
           /\ ret.k = "some"
           /\ ret.date = target
           /\ ret.holidays = ServedSlot(payload, target).holidays
           /\ ret.error = ErrStale
        \/ /\ last.refresh = "fail"
           /\ ~SlotPresent(payload, target)
           /\ ret = HolidayResult(target, <<>>, last.moment, ErrFetchFailed)

\* C6: once the cache is initialized, get_cached_holiday_result(d) is a hit
\* exactly when the stored date of "today" or of "tomorrow" is d, and it never
\* raises, whatever the stored dates are.
C6_HitIffDateEquals ==
  Initialized =>
    \A d \in Dates :
      LET r == get_cached_holiday_result(payload, d, clock)
      IN  /\ r.k # "raise"
          /\ r.k = "some" <=> SlotPresent(payload, d)

\* C7: update_autopost_time with a valid value that normalizes to the stored
\* autopost time writes nothing and leaves the signal as it was; with a valid
\* value that normalizes to something else it stores the normalized value,
\* writes the document once and sets the signal.
C7_NoOpOnEqual ==
  last.op = "update_autopost_time" /\ ~last.raised =>
    LET n == _normalize_time(last.value).val
    IN  IF n = last.before
        THEN /\ last.writes = 0
             /\ ~last.notify
             /\ event = last.event_before
             /\ payload.autopost_time = last.before
        ELSE /\ last.writes = 1
             /\ event = "set"
             /\ payload.autopost_time = n
             /\ file = FileDoc(payload)

C7_Witness ==
  /\ last.op = "update_autopost_time"
  /\ ~last.raised
  /\ last.value # last.before
  /\ _normalize_time(last.value).val = last.before
  /\ last.writes = 0
  /\ event = "clear"

\* The fire instant of the timed wait is the stored autopost time's next
\* occurrence.
TargetIsCurrent ==
  LET t == _parse_time_string(payload.autopost_time)
      at == wake["autopost"]
  IN  /\ t.ok
      /\ at % DayMinutes = t.hour * 60 + t.minute
      /\ at <= clock + DayMinutes

\* C8 as stated: every stored update is answered by a wake that sends no
\* digest, so no digest goes out for a wake that found the signal set.
C8_NoDigestOnUpdate ==
  ~(last.op = "autopost_send" /\ last.sent /\ last.swallowed)

\* C8: a stored update sets the signal; a wake by the signal sends no digest
\* and goes straight back to the timed wait; and a timed wait the signal is
\* not about to interrupt always aims at the stored autopost time, never at an
\* older one.  (A wake by the timeout that finds the signal set still sends.)
C8_LiveReconfiguration ==
  /\ last.op = "update_autopost_time" /\ last.writes = 1 => event = "set"
  /\ last.op = "autopost_signal_wake" => pc["autopost"] = "wait" /\ apw = NoWake
  /\ pc["autopost"] = "wait" /\ event = "clear" => TargetIsCurrent

C8_Witness ==
  /\ last.op = "autopost_signal_wake"
  /\ pc["autopost"] = "wait"
  /\ event = "clear"
  /\ payload.autopost_time # DefaultAutopostTime
  /\ wake["autopost"] % DayMinutes = 23 * 60 + 50

NightlyFailed ==
  last.op = "refresh_holiday_cache" /\ last.task = "nightly" /\ ~last.ok

\* An iteration of the autopost loop ended by an exception: a failed refresh,
\* a cache read that raised, or a failed send.
AutopostFailed ==
  \/ last.op = "autopost_refreshed" /\ last.todo = "raise"
  \/ last.op = "autopost_timeout_wake" /\ last.todo = "raise"
  \/ last.op = "autopost_send" /\ ~last.sent

C12_InitializeNeverFails ==
  last.op = "initialize" =>
    /\ ~last.raised
    /\ payload # NoPayload
    /\ file = FileDoc(payload)
    /\ last.found # "doc" =>
         payload = Payload(DefaultAutopostTime, clock,
                           Slot(RawIso(DateOf(clock)), <<>>, clock),
                           Slot(RawIso(DateOf(clock) + 1), <<>>, clock))

\* C13: once initialize_holiday_cache has run, the document holds an autopost
\* time and two slots, each an object with a date, a holiday list, a fetch
\* instant and a source URL.
C13_SlotsComplete ==
  Initialized =>
    /\ payload.autopost_time # <<>>
    /\ \A slot \in {payload.today, payload.tomorrow} :
         /\ slot.t = "dict"
         /\ slot.date.t # "null"
         /\ slot.fetched_at # NoInstant
         /\ slot.source_url # ""

\* The document was last written by a successful refresh at or after 23:45
\* of the day before the day of now.
RolledOver(now) ==
  /\ payload # NoPayload
  /\ payload.updated_at % DayMinutes >= 23 * 60 + 45
  /\ DateOf(payload.updated_at) + 1 = DateOf(now)
  /\ payload.today.fetched_at = payload.updated_at

\* C14: after a successful refresh at or after 23:45 of day D and before any
\* further refresh, a non-forced get_today_holidays on day D+1 never goes to
\* the network: it returns the "today" slot, which is dated D+1.
C14_MidnightRollover ==
  /\ ~(/\ last.op = "refresh_begin"
       /\ last.task \in Queries
       /\ ~last.forced
       /\ RolledOver(clock))
  /\ last.op = "get_today_holidays" /\ last.refresh = "none" /\ RolledOver(last.moment) =>
       /\ last.ret.k = "some"
       /\ last.ret.date = DateOf(last.moment)
       /\ payload.today.date = RawIso(last.ret.date)
       /\ last.ret.holidays = payload.today.holidays

C14_Witness ==
  /\ last.op = "get_today_holidays"
  /\ last.refresh = "none"
  /\ RolledOver(last.moment)
  /\ last.ret.k = "some"
  /\ last.ret.holidays # <<>>

\* The name mentions the country-wide holiday: it holds the country's name in
\* some grammatical form (the stem "росси"), or "russia".
MentionsCountry(name) ==
  \/ Contains(Lower(name), <<"r~", "o~", "s~", "s~", "i~">>)
  \/ Contains(Lower(name), <<"r", "u", "s", "s", "i", "a">>)

\* C15: select_autopost_holiday returns the first name that does not mention
\* the country-wide holiday, the first name when all mention it, and no
\* selection for the empty list; so ["День России", "Прадник мороженого"]
\* gives "Прадник мороженого" and ["День России"] gives "День России".
C15_SelectPrefersOther ==
  last.op = "select_autopost_holiday" =>
    LET h == last.holidays
        others == {i \in 1..Len(h) : ~MentionsCountry(h[i])}
    IN  /\ h = <<>> => last.ret = NoSelection
        /\ h # <<>> /\ others = {} => last.ret = Selection(h[1])
        /\ others # {} =>
             last.ret = Selection(h[CHOOSE i \in others : \A j \in others : i <= j])
        /\ h = <<DenRossii, PradnikMorozhenogo>> =>
             last.ret = Selection(PradnikMorozhenogo)
        /\ h = <<DenRossii>> => last.ret = Selection(DenRossii)

\* The field is an integer literal: digits, with an optional sign before
\* them and optional blanks around.
NumericField(f) ==
  \E a, b \in 1..Len(f) :
    /\ a <= b
    /\ \A i \in 1..Len(f) : (i < a \/ i > b) => f[i] = " "
    /\ \/ \A i \in a..b : IsDigit(f[i])
       \/ a < b /\ f[a] \in {"+", "-"} /\ \A i \in (a + 1)..b : IsDigit(f[i])

\* The input is malformed: blank, not exactly one separator, a field that is
\* no number, or an hour or minute out of range.
Malformed(v) ==
  LET colons == {i \in 1..Len(v) : v[i] = ":"}
  IN  \/ \A i \in 1..Len(v) : v[i] = " "
      \/ Cardinality(colons) # 1
      \/ LET c == CHOOSE i \in colons : TRUE
             hour == SubSeq(v, 1, c - 1)
             minute == SubSeq(v, c + 1, Len(v))
         IN  \/ ~NumericField(hour)
             \/ ~NumericField(minute)
             \/ IntVal(hour) \notin 0..23
             \/ IntVal(minute) \notin 0..59

C17_AnnotationShown ==
  (/\ last.op = "get_today_holidays"
   /\ last.ret.k = "some"
   /\ last.ret.error \in {ErrStale, ErrFetchFailed})
    => \E i \in 1..Len(last.answer) : last.answer[i] = <<last.ret.error>>

\* The two slots and the stamp of the document, as a reader finds them.
Slots(p) == <<p.today, p.tomorrow, p.updated_at>>

\* C18: the slots a reader can find change only in the step that ends a
\* refresh, after its download and parse, and they change together: both
\* slots and updated_at carry the moment of that refresh and the "tomorrow"
\* slot is dated one day after the "today" slot.  While a download is in
\* flight the slots are the ones from before the refresh.
C18_NoHalfWrittenCache ==
  [][(payload # NoPayload /\ Slots(payload') # Slots(payload)) =>
       \E t \in Tasks :
         /\ pc[t] = "fetching"
         /\ pc'[t] # "fetching"
         /\ payload'.today.fetched_at = moment[t]
         /\ payload'.tomorrow.fetched_at = moment[t]
         /\ payload'.updated_at = moment[t]
         /\ \E d \in Dates :
              /\ payload'.today.date = RawIso(d)
              /\ payload'.tomorrow.date = RawIso(d + 1)]_vars

C18_Witness ==
  /\ last.op = "get_today_holidays"
  /\ last.refresh = "ok"
  /\ last.moment >= DayMinutes
  /\ payload.today = Slot(RawIso(DateOf(last.moment)), <<"holiday">>, last.moment)
  /\ payload.tomorrow = Slot(RawIso(DateOf(last.moment) + 1), <<"holiday">>, last.moment)
  /\ payload.updated_at = last.moment

\* The task neither holds the refresh lock nor waits for it.
OffLock(t) ==
  /\ lock_holder # t
  /\ t \notin Waiting(lock_waiters)
  /\ pc[t] \notin {"waitlock", "fetching"}

\* C19: the readers do not wait for the refresh lock.  A get_today_holidays
\* that was not forced and whose date is in the cache returns in the step of
\* the call, without the lock and without a download, the holidays of the
\* slot as it stands, also while another task holds the lock; it starts a
\* refresh only when forced or when the date is not in the cache.  The same
\* holds for the autopost read of the cache and of the autopost time.
C19_ReadersNeverBlock ==
  /\ (last.op = "get_today_holidays" /\ last.refresh = "none") =>
       /\ \A q \in Queries : OffLock(q)
       /\ last.ret.k = "some" => SlotPresent(payload, DateOf(last.moment))
       /\ SlotPresent(payload, DateOf(last.moment)) =>
            /\ last.ret.k = "some"
            /\ last.ret.date = DateOf(last.moment)
            /\ last.ret.holidays = ServedSlot(payload, DateOf(last.moment)).holidays
            /\ last.ret.error \in {NoError, ErrNoHolidays}
  /\ (last.op = "refresh_begin" /\ last.task \in Queries) =>
       last.forced \/ ~SlotPresent(payload, DateOf(moment[last.task]))
  /\ (last.op = "autopost_timeout_wake" /\ last.todo \in {"send", "skip"}) =>
       OffLock("autopost")
  /\ (last.op = "autopost_timeout_wake" /\ last.todo = "refresh") =>
       ~SlotPresent(payload, last.date)

C19_Witness ==
  /\ last.op = "get_today_holidays"
  /\ last.refresh = "none"
  /\ last.ret.k = "some"
  /\ last.ret.holidays # <<>>
  /\ \E t \in Tasks \ Queries : lock_holder = t /\ pc[t] = "fetching"

\* C20: every refresh started by _holiday_cache_refresh_loop has its moment
\* at 23:50, inside the window of the day-boundary rule, and when it
\* succeeds the slots it writes are dated fire day + 1 and fire day + 2,
\* also when it had to wait for the lock held by another refresh.
C20_NightlyPreMidnight ==
  /\ pc["nightly"] \in {"waitlock", "fetching"} =>
       /\ moment["nightly"] % DayMinutes = NightlyHour * 60 + NightlyMinute
       /\ is_near_midnight(moment["nightly"])
  /\ (last.op = "refresh_holiday_cache" /\ last.task = "nightly") =>
       /\ last.moment % DayMinutes = NightlyHour * 60 + NightlyMinute
       /\ last.ok =>
            /\ payload.today.date = RawIso(DateOf(last.moment) + 1)
            /\ payload.tomorrow.date = RawIso(DateOf(last.moment) + 2)
            /\ payload.today.fetched_at = last.moment
            /\ payload.tomorrow.fetched_at = last.moment

C20_Witness ==
  /\ last.op = "refresh_holiday_cache"
  /\ last.task = "nightly"
  /\ last.ok
  /\ last.was_queued
  /\ payload.today.date = RawIso(DateOf(last.moment) + 1)
  /\ payload.tomorrow.date = RawIso(DateOf(last.moment) + 2)

RECURSIVE ContainerDepth(_, _, _)
\* The nesting depth of the container div_<target_date> after the first n
\* events: 0 outside it.
ContainerDepth(html, target_date, n) ==
  IF n = 0 THEN 0
  ELSE LET before == ContainerDepth(html, target_date, n - 1)
           ev == html[n]
       IN  CASE ev.e = "start" /\ ev.tag = "div" /\ before > 0 -> before + 1
             [] ev.e = "start" /\ ev.tag = "div" /\ ev.attr = DivId(target_date) -> 1
             [] ev.e = "end" /\ ev.tag = "div" /\ before > 0 -> before - 1
             [] OTHER -> before

\* The positions of the texts that lie inside the container.
TextsInside(html, target_date) ==
  {i \in 1..Len(html) :
     html[i].e = "data" /\ ContainerDepth(html, target_date, i - 1) > 0}

RECURSIVE Letters(_)
\* The number of characters other than blanks.
Letters(text) ==
  IF text = <<>> THEN 0
  ELSE (IF IsSpace(text[1]) THEN 0 ELSE 1) + Letters(Tail(text))

RECURSIVE LettersAt(_, _)
LettersAt(html, positions) ==
  IF positions = {} THEN 0
  ELSE LET i == CHOOSE j \in positions : TRUE
       IN  Letters(html[i].text) + LettersAt(html, positions \ {i})

RECURSIVE LettersIn(_)
LettersIn(names) ==
  IF names = <<>> THEN 0 ELSE Letters(names[1]) + LettersIn(Tail(names))

\* C21: the names _parse_holidays returns are trimmed and non-empty, they
\* are made of text that lies inside the container of the target date only,
\* and there is none when the markup has no such container.
C21_ParserContainerOnly ==
  last.op = "_parse_holidays" =>
    /\ \A i \in 1..Len(last.ret) :
         /\ last.ret[i] # <<>>
         /\ Strip(last.ret[i]) = last.ret[i]
    /\ LettersIn(last.ret) <= LettersAt(last.html, TextsInside(last.html, 0))
    /\ (\A i \in 1..Len(last.html) : last.html[i] # StartTag("div", DivId(0)))
         => last.ret = <<>>

\* The key of the slot a lookup of d is answered from.
ServedKey(p, d) == IF StoredDateIs(p.today, d) THEN "today" ELSE "tomorrow"

\* C22: a cache hit of get_today_holidays with an empty list and the
\* annotation "no holidays found" comes from a slot that a completed refresh
\* wrote; a slot made by initialization and not refreshed since is not
\* served as such a hit.
C22_EmptyHitWasChecked ==
  (/\ last.op = "get_today_holidays"
   /\ last.refresh = "none"
   /\ last.ret.k = "some"
   /\ last.ret.holidays = <<>>
   /\ last.ret.error = ErrNoHolidays)
    => ServedKey(payload, DateOf(last.moment)) \notin placeholders

\* C23: a step that changes a slot or updated_at leaves autopost_time as it
\* is, a step that changes autopost_time is update_autopost_time and leaves
\* the slots and updated_at as they are, and every write puts the whole
\* document as it is in memory into the file; so a time set while a refresh
\* is in flight is in memory and in the file after the refresh has written,
\* and the slots of a refresh stay after a time change.
C23_FieldFrame ==
  [][payload # NoPayload =>
       /\ Slots(payload') # Slots(payload) =>
            payload'.autopost_time = payload.autopost_time
       /\ payload'.autopost_time # payload.autopost_time =>
            /\ last'.op = "update_autopost_time"
            /\ payload'.autopost_time = last'.ret
            /\ Slots(payload') = Slots(payload)
       /\ file' # file => file' = FileDoc(payload')
       /\ file = FileDoc(payload) => file' = FileDoc(payload')]_vars

\* The autopost task's refresh has written while the signal of a time change
\* made during that refresh is still set.
C23_Witness ==
  /\ last.op = "autopost_refreshed"
  /\ last.ok
  /\ event = "set"
  /\ payload.autopost_time # DefaultAutopostTime
  /\ payload.updated_at = last.moment
  /\ file = FileDoc(payload)

\* C24: _next_run_at returns an instant at the target hour:minute, strictly
\* later than now and at most 24 hours later: today's when that is strictly
\* in the future, tomorrow's otherwise, also when now is the target instant;
\* applied at the instant it returned it gives the same time one day later.
C24_NextRunStrictlyLater ==
  last.op = "_next_run_at" =>
    LET next_run == last.ret.at
        today == DateOf(last.now) * DayMinutes + last.hour * 60 + last.minute
    IN  /\ last.ret.ok
        /\ HourOf(next_run) = last.hour
        /\ MinuteOf(next_run) = last.minute
        /\ next_run > last.now
        /\ next_run - last.now <= DayMinutes
        /\ today > last.now => next_run = today
        /\ today <= last.now => next_run = today + DayMinutes
        /\ last.again.ok
        /\ last.again.at = next_run + DayMinutes

C24_Witness ==
  /\ last.op = "_next_run_at"
  /\ last.now = DateOf(last.now) * DayMinutes + last.hour * 60 + last.minute
  /\ last.ret.at = last.now + DayMinutes
  /\ last.again.at = last.now + 2 * DayMinutes

\* C25: the HolidayResult that get_today_holidays returns is dated with the
\* calendar date of the call's now, at every time of day, forced or not,
\* whatever the cache holds and however the refresh ends.
C25_ResultIsForQueriedDay ==
  (last.op = "get_today_holidays" /\ last.ret.k = "some")
    => last.ret.date = DateOf(last.moment)

\* The step ends a refresh whose request failed.
FailedRefreshEnds ==
  /\ \E t \in Tasks : pc[t] = "fetching" /\ pc'[t] # "fetching"
  /\ last'.failed

\* C26: a refresh whose request fails (timeout, error status, connection
\* error) leaves the document in memory and the file exactly as they were,
\* also when get_today_holidays takes the failure and answers from the stale
\* cache or with the "fetch failed" result.
C26_FailedRefreshKeepsCache ==
  [][FailedRefreshEnds => payload' = payload /\ file' = file]_vars

C26_Witness ==
  /\ last.op = "get_today_holidays"
  /\ last.refresh = "fail"
  /\ last.failed
  /\ last.ret.k = "some"
  /\ last.ret.error = ErrStale
  /\ payload.updated_at < last.moment
  /\ file = FileDoc(payload)

\* C27: the refresh lock is held only by a task inside its refresh, so it
\* is released when the refresh ends, by success, by a failed request or by
\* cancellation; and every task waiting for the lock (the loops and the
\* queries; the startup refresh runs before they exist) goes on to hold it,
\* unless it is cancelled while it waits.
C27_GuardReleased ==
  /\ [](\A t \in Tasks : lock_holder = t => pc[t] = "fetching")
  /\ \A t \in Cancelled \cup Queries :
       (pc[t] = "waitlock") ~> (pc[t] = "fetching" \/ pc[t] = "cancelled")

C27_Witness ==
  /\ last.op = "shutdown"
  /\ last.held \in Cancelled
  /\ last.waited \cap Queries # {}
  /\ \E q \in Queries : lock_holder = q /\ pc[q] = "fetching"

====
